---- MODULE Spec2Model ----
(***************************************************************************)
(* youtube-subscriptions (src/src/main.rs): the feed aggregation, the      *)
(* cache file, the derived view and the keyboard session, as a state       *)
(* machine.                                                                *)
(*                                                                         *)
(* Strings are sequences of one-character strings, so that                 *)
(* str::contains is a real substring test.  A Video carries the three      *)
(* fields the modelled code reads (channel, title, published); published   *)
(* is the day number of a fixed-width ISO-8601 date, on which the lexical  *)
(* String order of the code is the numeric order.                          *)
(***************************************************************************)
EXTENDS Integers, Sequences, FiniteSets, TLC

\* ------------------------------------------------------------------ bounds
NumSources == 2
MaxEntries == 2
MaxDay == 3
MaxTermH == 3
MaxTake == 2
MaxLen == 3
MaxWin == 3

Sources == 1..NumSources
Days == 1..MaxDay

\* the lines a user types at a prompt (read_line)
Texts == { <<>>, <<"a", "b">>, <<"c">> }

\* ------------------------------------------------------------ pure helpers
Min(a, b) == IF a < b THEN a ELSE b

Reverse(s) == [k \in 1..Len(s) |-> s[Len(s) + 1 - k]]

RECURSIVE Concat(_)
Concat(ss) == IF ss = <<>> THEN <<>> ELSE Head(ss) \o Concat(Tail(ss))

\* number of occurrences of v in s
Count(v, s) == Cardinality({k \in 1..Len(s) : s[k] = v})

Range(s) == {s[k] : k \in 1..Len(s)}

\* the same multiset of elements
SameBag(s, t) ==
    /\ Len(s) = Len(t)
    /\ \A v \in Range(s) \cup Range(t) : Count(v, s) = Count(v, t)

\* str::contains: f occurs in s as a contiguous substring
contains(s, f) ==
    \E k \in 0..(Len(s) - Len(f)) : SubSeq(s, k + 1, k + Len(f)) = f

\* ------------------------------------------------------------------- Video
Video(c, t, d) == [channel |-> c, title |-> t, published |-> d]

\* Vec::sort_by(|a, b| b.published.cmp(&a.published)): a stable sort,
\* newest first; equal keys keep their order
RECURSIVE InsertDesc(_, _)
InsertDesc(v, s) ==
    IF s = <<>> THEN <<v>>
    ELSE IF Head(s).published >= v.published
         THEN <<Head(s)>> \o InsertDesc(v, Tail(s))
         ELSE <<v>> \o s

\* a sort that does not keep the order of equal keys (sort_unstable_by):
\* here it leaves them reversed
RECURSIVE sort_unstable_by(_)
sort_unstable_by(s) ==
    IF s = <<>> THEN <<>>
    ELSE InsertDesc(Head(s), sort_unstable_by(Tail(s)))

RECURSIVE sort_by(_)
sort_by(s) ==
    IF s = <<>> THEN <<>>
    ELSE InsertDesc(s[Len(s)], sort_by(SubSeq(s, 1, Len(s) - 1)))

\* the filter closure without its second operand
matches_title_only(video, filter) == contains(video.title, filter)

\* the filter closure of to_show_videos
matches(video, filter) ==
    contains(video.title, filter) \/ contains(video.channel, filter)

filtered_videos(sorted, filter) ==
    SelectSeq(sorted, LAMBDA v : matches(v, filter))

\* to_show_videos: the sort is in place (sorted is the catalog afterwards);
\* the slice filtered_videos[start..new_end] panics when start > new_end
to_show_videos(videos, start, end, filter) ==
    LET sorted == sort_by(videos)
        fv == filtered_videos(sorted, filter)
        new_end == Min(end, Len(fv))
    IN  [ sorted |-> sorted,
          ok |-> start <= new_end,
          result |-> IF start <= new_end
                     THEN Reverse(SubSeq(fv, start + 1, new_end))
                     ELSE <<>> ]

\* ------------------------------------------------------- the cache file
\* serde_json text of Videos, as the pieces a reader can tell apart: the
\* opening of {"videos":[ , one piece per Video, and the closing ]}
OpenTok == [k |-> "open", v |-> Video(<<>>, <<>>, 0)]
CloseTok == [k |-> "close", v |-> Video(<<>>, <<>>, 0)]
VideoTok(video) == [k |-> "video", v |-> video]

NoFile == [exists |-> FALSE, data |-> <<>>]
File(data) == [exists |-> TRUE, data |-> data]

\* serde_json::to_string(&videos)
to_string(vs) ==
    <<OpenTok>> \o [j \in 1..Len(vs) |-> VideoTok(vs[j])] \o <<CloseTok>>

\* serde_json::from_str::<Videos> succeeds on this text
parses(data) ==
    /\ Len(data) >= 2
    /\ data[1] = OpenTok
    /\ data[Len(data)] = CloseTok
    /\ \A j \in 2..(Len(data) - 1) : data[j].k = "video"

from_str(data) == [j \in 1..(Len(data) - 2) |-> data[j + 1].v]

\* ---------------------------------------------------------- the network
\* source s is the feed of channel s: its title, and the title and the date
\* of its j-th entry
ChannelOf(c) == IF c % 2 = 1 THEN <<"a", "b">> ELSE <<"b">>
TitleOf(j) == IF j % 2 = 1 THEN <<"b", "a", "b">> ELSE <<"b">>
DayOf(c, j) == ((c + 2 * (j - 1)) % MaxDay) + 1

\* the feed of channel c: every entry carries the feed's own title
FullFeed(c) == [j \in 1..MaxEntries |-> Video(ChannelOf(c), TitleOf(j), DayOf(c, j))]

Unreachable == [kind |-> "unreachable", feed |-> <<>>]
Malformed == [kind |-> "malformed", feed |-> <<>>]
Ok(feed) == [kind |-> "ok", feed |-> feed]

\* what the url of source s may answer: no HTTP answer, a body that is not
\* XML, or its feed with 0..MaxEntries entries; a source after the first may
\* also be a second url of channel 1 (a channel listed twice, in the
\* subscription file or in channel_ids)
Responses(s) ==
    {Unreachable, Malformed}
        \cup {Ok(SubSeq(FullFeed(s), 1, len)) : len \in 0..MaxEntries}
        \cup (IF s > 1 THEN {Ok(FullFeed(1))} ELSE {})

\* the cache a previous run left behind
OldCatalog == FullFeed(2) \o FullFeed(1)
InitCaches ==
    { NoFile,
      File(to_string(OldCatalog)),
      File(SubSeq(to_string(OldCatalog), 1, 2)) }

\* ----------------------------------------------------------------- state
VARIABLES
    args,          \* env::args: [numeric, take]
    pc,            \* where the process is
    fatal,         \* the panic that ended the process, "" if none
    caller,        \* who called load: "run", "R" (hard_reload of the session), "download"
    net,           \* what each source answers
    termH,         \* the terminal's height
    cacheFile,     \* the file at app_config.cache_path
    cacheAtCall,   \* the cache file as it was when load was last called
    results,       \* per source: the outcome of get_channel_videos in this pass
    videos,        \* self.videos.videos
    n,             \* self.n
    start,         \* self.start
    filter,        \* self.filter
    i,             \* self.i
    toshow,        \* self.toshow
    altScreen,     \* smcup without rmcup
    cursorHidden,  \* hide_cursor without show_cursor
    rawMode,       \* a RawScreen guard is alive
    dispatched,    \* what the last handler handed to an external program
    observed,      \* what a second process instance last read from the cache file
    event,         \* the arm of the match of run the last key selected, and the line read in it
    screen,        \* the entries on the rows of the terminal, top row first
    urls           \* urls_from_xml of the running pass, <<>> outside get_videos and the write

vars == << args, pc, fatal, caller, net, termH, cacheFile, cacheAtCall, results,
           videos, n, start, filter, i, toshow, altScreen, cursorHidden, rawMode,
           dispatched, observed, event, screen, urls >>

envVars == << args, net, urls >>
termVars == << altScreen, cursorHidden >>
viewVars == << videos, n, start, filter, i, toshow >>
loadVars == << cacheFile, cacheAtCall, results >>

NotFetched == [done |-> FALSE, entries |-> <<>>]
Fetched(entries) == [done |-> TRUE, entries |-> entries]
NotCalled == [called |-> FALSE, file |-> NoFile]
CalledWith(file) == [called |-> TRUE, file |-> file]
NotRead == [read |-> FALSE, file |-> NoFile]
ReadAs(file) == [read |-> TRUE, file |-> file]

\* the arm of the match at lines 757-786 a key selects, named by its first
\* pattern ("_" for line 782 and for the events that are no key), with the
\* line input_with_prefix returned in it
Key(k) == [key |-> k, line |-> <<>>]
NoKey == Key("")

\* what the sources answer during one run of the program
Nets ==
    {f \in [Sources -> UNION {Responses(s) : s \in Sources}] :
        \A s \in Sources : f[s] \in Responses(s)}

\* main: the YoutubeSubscribtions value before run or download
InitCommon ==
    /\ pc = "main"
    /\ fatal = ""
    /\ caller = "none"
    /\ net \in Nets
    /\ termH \in 1..MaxTermH
    /\ cacheFile \in InitCaches
    /\ cacheAtCall = NotCalled
    /\ results = [s \in Sources |-> NotFetched]
    /\ videos = <<>>
    /\ n = 0
    /\ start = 0
    /\ filter = <<>>
    /\ i = 0
    /\ toshow = <<>>
    /\ altScreen = FALSE
    /\ cursorHidden = FALSE
    /\ rawMode = FALSE
    /\ dispatched = <<>>
    /\ observed = NotRead
    /\ event = NoKey
    /\ screen = <<>>
    /\ urls = <<>>

\* started without arguments; during the session the sources after the
\* second are unreachable
Init ==
    /\ args = [numeric |-> FALSE, take |-> 0]
    /\ InitCommon
    /\ \A s \in Sources : s > 2 => net[s] = Unreachable

\* started with one numeric argument
InitBatch ==
    /\ args \in {[numeric |-> TRUE, take |-> t] : t \in 0..MaxTake}
    /\ InitCommon

\* ------------------------------------------------------------ the panics
ParsePanic == "failed to parse XML"
SetupPanic == "subscription_manager cannot be read"
WritePanic == "writing videos json failed"
NonePanic == "called Option::unwrap() on a None value"
JsonPanic == "called Result::unwrap() on an Err value"
SlicePanic == "slice index starts past its end"
DivPanic == "attempt to calculate the remainder with a divisor of zero"
SubPanic == "attempt to subtract with overflow"

\* a panic unwinds main: nothing after it runs, no terminal state is restored
Panic(msg) ==
    /\ pc' = "panicked"
    /\ fatal' = msg
    /\ rawMode' = FALSE

\* ------------------------------------------------------------------ main
\* main: one numeric argument calls download (hard_reload first), anything
\* else calls run; both start with load
main ==
    /\ pc = "main"
    /\ pc' = "load"
    /\ caller' = IF args.numeric THEN "download" ELSE "run"
    /\ UNCHANGED << envVars, termH, fatal, loadVars, viewVars, termVars, rawMode,
                    dispatched, observed,
                    event, screen >>

\* ------------------------------------------------------------------ load
\* the reload argument of load
reload == caller # "run"

\* line 295 without the cache test
needs_fetch_always(force, file) == TRUE

\* load, line 295: whether an aggregation pass runs
needs_fetch(force, file) == force \/ ~file.exists

\* load up to the branch: get_subscriptions_xml answered Ok
load_begin ==
    /\ pc = "load"
    /\ cacheAtCall' = CalledWith(cacheFile)
    /\ results' = [s \in Sources |-> NotFetched]
    /\ pc' = IF needs_fetch(reload, cacheFile) THEN "fetch" ELSE "read"
    /\ UNCHANGED << envVars, termH, fatal, caller, cacheFile, viewVars, termVars,
                    rawMode, dispatched, observed,
                    event, screen >>

\* get_subscriptions_xml panics (file missing) or answers Err, which load
\* turns into None and the caller unwraps; get_videos panics on a
\* subscription file that is not XML
load_no_subscriptions ==
    /\ pc = "load"
    /\ Panic(SetupPanic)
    /\ UNCHANGED << envVars, termH, caller, loadVars, viewVars, termVars,
                    dispatched, observed,
                    event, screen >>

\* get_channel_videos without the response.ok() test: the body of a failed
\* request goes to the parser
get_channel_videos_unchecked(response) ==
    IF response.kind = "ok" THEN [panic |-> FALSE, entries |-> response.feed]
    ELSE [panic |-> TRUE, entries |-> <<>>]

\* get_channel_videos on one answer: the entries, or the panic of
\* parser::parse(..).expect
get_channel_videos(response) ==
    IF response.kind = "unreachable" THEN [panic |-> FALSE, entries |-> <<>>]
    ELSE IF response.kind = "malformed" THEN [panic |-> TRUE, entries |-> <<>>]
    ELSE [panic |-> FALSE, entries |-> response.feed]

\* one task of the par_iter of get_videos; a panic of a task is re-raised by
\* rayon in the caller
fetch(s) ==
    /\ pc = "fetch"
    /\ ~results[s].done
    /\ LET r == get_channel_videos(net[s])
       IN  IF r.panic
           THEN /\ Panic(ParsePanic)
                /\ UNCHANGED results
           ELSE /\ results' = [results EXCEPT ![s] = Fetched(r.entries)]
                /\ UNCHANGED << pc, fatal, rawMode >>
    /\ UNCHANGED << envVars, termH, caller, cacheFile, cacheAtCall, viewVars,
                    termVars, dispatched, observed,
                    event, screen >>

\* the sources the subscription file lists; those after them are the
\* additional channel ids of the configuration
FromXml == {s \in Sources : s <= 2}

\* the orders urls_from_xml may have: urls.iter() enumerates the nodes of the
\* node set in any order (lines 245-251), extend appends the additional
\* channel ids in the order of the configuration (lines 252-255)
Enumerations ==
    {order \in [1..NumSources -> Sources] :
        /\ \A a, b \in 1..NumSources : a # b => order[a] # order[b]
        /\ \A k \in Sources \ FromXml : order[k] = k}

\* par_iter().flat_map().collect(): the entries in the order of the urls
get_videos(res, order) == Concat([k \in 1..Len(order) |-> res[order[k]].entries])

\* the join of get_videos, to_string, and fs::write opening the file, which
\* truncates it
write_open ==
    /\ pc = "fetch"
    /\ \A s \in Sources : results[s].done
    /\ urls' \in Enumerations
    /\ cacheFile' = File(<<>>)
    /\ pc' = "write"
    /\ UNCHANGED << args, net, termH, fatal, caller, cacheAtCall, results, viewVars,
                    termVars, rawMode, dispatched, observed,
                    event, screen >>

\* write_all of fs::write: the text reaches the file in one or more writes
write_chunk ==
    /\ pc = "write"
    /\ LET text == to_string(get_videos(results, urls))
       IN  \E upto \in (Len(cacheFile.data) + 1)..Len(text) :
               /\ cacheFile' = File(SubSeq(text, 1, upto))
               /\ pc' = IF upto = Len(text) THEN "read" ELSE "write"
               /\ urls' = IF upto = Len(text) THEN <<>> ELSE urls
    /\ UNCHANGED << args, net, termH, fatal, caller, cacheAtCall, results, viewVars,
                    termVars, rawMode, dispatched, observed,
                    event, screen >>

\* fs::write answers Err on its first write: expect panics
write_fail ==
    /\ pc = "write"
    /\ cacheFile.data = <<>>
    /\ Panic(WritePanic)
    /\ UNCHANGED << envVars, termH, caller, loadVars, viewVars, termVars,
                    dispatched, observed,
                    event, screen >>

\* fs::read_to_string answers Err: load returns None, the caller unwraps it
read_fail ==
    /\ pc = "read"
    /\ Panic(NonePanic)
    /\ UNCHANGED << envVars, termH, caller, loadVars, viewVars, termVars,
                    dispatched, observed,
                    event, screen >>

\* serde_json::from_str answers Err: unwrap panics
read_unparseable ==
    /\ pc = "read"
    /\ ~parses(cacheFile.data)
    /\ Panic(JsonPanic)
    /\ UNCHANGED << envVars, termH, caller, loadVars, viewVars, termVars,
                    dispatched, observed,
                    event, screen >>

\* -------------------------------------------------------------- the view
\* get_lines: (h - 1) as usize
get_lines == termH - 1

\* lines 599-605 without the test of line 600: the subtraction wraps (shown
\* on a 16-bit usize)
page_start_unguarded(direction, nn, st, len) ==
    IF direction = 1 THEN (IF st + 2 * nn < len THEN st + nn ELSE st)
    ELSE IF direction = 0 THEN 0
    ELSE (st - nn) % 65536

\* lines 597-598 missing: direction 0 keeps self.start
page_start_keep(direction, nn, st, len) ==
    IF direction = 1 THEN (IF st + 2 * nn < len THEN st + nn ELSE st)
    ELSE IF direction = 0 THEN st
    ELSE IF nn > st THEN 0 ELSE st - nn

\* move_page, lines 593-605: the new self.start
page_start(direction, nn, st, len) ==
    IF direction = 1 THEN (IF st + 2 * nn < len THEN st + nn ELSE st)
    ELSE IF direction = 0 THEN 0
    ELSE IF nn > st THEN 0 ELSE st - nn

\* move_page deriving the window before it moves self.start
move_page_stale(direction, vids, flt) ==
    LET nn == get_lines
        st == page_start(direction, nn, start, Len(vids))
        r == to_show_videos(vids, start, start + nn, flt)
    IN  [n |-> nn, start |-> st, videos |-> r.sorted, ok |-> r.ok, toshow |-> r.result]

\* move_page on the catalog vids with the filter flt: the fields it assigns
\* (ok is FALSE when to_show_videos panics)
move_page(direction, vids, flt) ==
    LET nn == get_lines
        st == page_start(direction, nn, start, Len(vids))
        r == to_show_videos(vids, st, st + nn, flt)
    IN  [n |-> nn, start |-> st, videos |-> r.sorted, ok |-> r.ok, toshow |-> r.result]

\* line 788 and the top of the loop: self.i = self.i % self.n, then the
\* next key is awaited in raw mode
loop_end(new_i, nn) ==
    IF nn = 0
    THEN /\ Panic(DivPanic)
         /\ i' = new_i
    ELSE /\ i' = new_i % nn
         /\ pc' = "browsing"
         /\ rawMode' = TRUE
         /\ UNCHANGED fatal

\* print_videos without the rev() of line 419
print_videos_in_order(window) == window

\* print_videos after clear and move_cursor(0): one row per entry, the
\* window read backwards (toshow.iter().rev()), top row first
print_videos(window) == Reverse(window)

\* move_page without the self.i = 0 of line 612
page_then_loop_keep_i(mp) ==
    /\ n' = mp.n
    /\ start' = mp.start
    /\ videos' = mp.videos
    /\ IF mp.ok
       THEN /\ toshow' = mp.toshow
            /\ screen' = print_videos(mp.toshow)
            /\ loop_end(i, mp.n)
       ELSE /\ Panic(SlicePanic)
            /\ UNCHANGED << toshow, i, screen >>

\* a handler that ends in move_page, then line 788
page_then_loop(mp) ==
    /\ n' = mp.n
    /\ start' = mp.start
    /\ videos' = mp.videos
    /\ IF mp.ok
       THEN /\ toshow' = mp.toshow
            /\ screen' = print_videos(mp.toshow)
            /\ loop_end(0, mp.n)
       ELSE /\ Panic(SlicePanic)
            /\ UNCHANGED << toshow, i, screen >>

\* what a handler hands to an external program
Dispatch(kind, video) == [kind |-> kind, video |-> video]

\* download, lines 728-736: download_video for the first take entries of the
\* catalog read backwards
download(vids, take) ==
    LET rev == Reverse(vids)
    IN  [k \in 1..Min(take, Len(rev)) |-> Dispatch("download", rev[k])]

\* load returned Some to run: lines 740-748
load_return_run ==
    /\ pc = "read"
    /\ caller = "run"
    /\ parses(cacheFile.data)
    /\ LET r == to_show_videos(from_str(cacheFile.data), 0, get_lines, filter)
       IN  /\ videos' = r.sorted
           /\ toshow' = r.result
    /\ start' = 0
    /\ i' = 0
    /\ n' = get_lines
    /\ altScreen' = TRUE
    /\ cursorHidden' = TRUE
    /\ rawMode' = TRUE
    /\ screen' = print_videos(toshow')
    /\ pc' = "browsing"
    /\ UNCHANGED << envVars, termH, fatal, caller, loadVars, filter, dispatched,
                    observed, event >>

\* load returned Some to hard_reload called for key R: soft_reload, line 788
load_return_hard_reload ==
    /\ pc = "read"
    /\ caller = "R"
    /\ parses(cacheFile.data)
    /\ page_then_loop(move_page(0, from_str(cacheFile.data), filter))
    /\ UNCHANGED << envVars, termH, caller, loadVars, filter, termVars, dispatched,
                    observed, event >>

\* load returned Some to hard_reload called by download: soft_reload, the
\* downloads, and main returns
load_return_download ==
    /\ pc = "read"
    /\ caller = "download"
    /\ parses(cacheFile.data)
    /\ LET mp == move_page(0, from_str(cacheFile.data), filter)
       IN  /\ n' = mp.n
           /\ start' = mp.start
           /\ videos' = mp.videos
           /\ toshow' = mp.toshow
           /\ screen' = print_videos(mp.toshow)
           /\ dispatched' = download(mp.videos, args.take)
    /\ i' = 0
    /\ pc' = "done"
    /\ UNCHANGED << envVars, termH, fatal, caller, loadVars, filter, termVars,
                    rawMode, observed, event >>

\* a second instance of the program reads the cache file (load, line 302)
reader_read ==
    /\ observed' = ReadAs(cacheFile)
    /\ observed' # observed
    /\ UNCHANGED << envVars, termH, pc, fatal, caller, loadVars, viewVars, termVars,
                    rawMode, dispatched,
                    event, screen >>

\* ------------------------------------------------------------- the keys
\* every handler below runs from the key read at line 754 to the next read
Browsing == pc = "browsing"

frame == << envVars, termH, caller, loadVars, termVars, observed >>

\* q: quit() shows the cursor and leaves the alternate screen
key_quit ==
    /\ Browsing
    /\ cursorHidden' = FALSE
    /\ altScreen' = FALSE
    /\ rawMode' = FALSE
    /\ pc' = "done"
    /\ dispatched' = <<>>
    /\ event' = Key("q")
    /\ UNCHANGED << envVars, termH, fatal, caller, loadVars, viewVars, observed,
                    screen >>

\* j, l, Down: line 763
key_down ==
    /\ Browsing
    /\ loop_end(i + 1, n)
    /\ dispatched' = <<>>
    /\ event' = Key("j")
    /\ UNCHANGED << frame, videos, n, start, filter, toshow, screen >>

\* self.n - 1 on usize: with n = 0 it panics (debug build) or wraps (release
\* build), and then line 788 panics
last_row(nn) ==
    IF nn = 0
    THEN /\ \E msg \in {SubPanic, DivPanic} : Panic(msg)
         /\ UNCHANGED i
    ELSE loop_end(nn - 1, nn)

\* k, Up: lines 764-766
key_up ==
    /\ Browsing
    /\ IF i > 0 THEN loop_end(i - 1, n) ELSE last_row(n)
    /\ dispatched' = <<>>
    /\ event' = Key("k")
    /\ UNCHANGED << frame, videos, n, start, filter, toshow, screen >>

\* g, H: line 767
key_top ==
    /\ Browsing
    /\ loop_end(0, n)
    /\ dispatched' = <<>>
    /\ event' = Key("g")
    /\ UNCHANGED << frame, videos, n, start, filter, toshow, screen >>

\* M: line 768
key_middle ==
    /\ Browsing
    /\ loop_end(n \div 2, n)
    /\ dispatched' = <<>>
    /\ event' = Key("M")
    /\ UNCHANGED << frame, videos, n, start, filter, toshow, screen >>

\* G, L: line 769
key_bottom ==
    /\ Browsing
    /\ last_row(n)
    /\ dispatched' = <<>>
    /\ event' = Key("G")
    /\ UNCHANGED << frame, videos, n, start, filter, toshow, screen >>

\* r, $, Left: soft_reload
soft_reload ==
    /\ Browsing
    /\ page_then_loop(move_page(0, videos, filter))
    /\ dispatched' = <<>>
    /\ event' = Key("r")
    /\ UNCHANGED << frame, filter >>

\* P: previous_page is move_page(1)
previous_page ==
    /\ Browsing
    /\ page_then_loop(move_page(1, videos, filter))
    /\ dispatched' = <<>>
    /\ event' = Key("P")
    /\ UNCHANGED << frame, filter >>

\* N: next_page is move_page(-1)
next_page ==
    /\ Browsing
    /\ page_then_loop(move_page(-1, videos, filter))
    /\ dispatched' = <<>>
    /\ event' = Key("N")
    /\ UNCHANGED << frame, filter >>

\* R: hard_reload calls load(true)
hard_reload ==
    /\ Browsing
    /\ pc' = "load"
    /\ caller' = "R"
    /\ rawMode' = FALSE
    /\ dispatched' = <<>>
    /\ event' = Key("R")
    /\ UNCHANGED << envVars, termH, fatal, loadVars, viewVars, termVars, observed,
                    screen >>

\* h, ?: help prints and waits in pause
help ==
    /\ Browsing
    /\ pc' = "help"
    /\ screen' = <<>>
    /\ dispatched' = <<>>
    /\ event' = Key("h")
    /\ UNCHANGED << frame, fatal, viewVars, rawMode >>

\* i, Right: when a row is selected, info clears the screen, prints the
\* information of self.toshow[self.i] and waits in pause
info ==
    /\ Browsing
    /\ IF i < Len(toshow)
       THEN /\ pc' = "info"
            /\ screen' = << toshow[i + 1] >>
            /\ UNCHANGED << fatal, i, rawMode >>
       ELSE /\ loop_end(i, n)
            /\ UNCHANGED screen
    /\ dispatched' = <<>>
    /\ event' = Key("i")
    /\ UNCHANGED << frame, videos, n, start, filter, toshow >>

\* wait_key_press_and_soft_reload after the key: clear, soft_reload, line 788
wait_key_press_and_soft_reload ==
    /\ pc \in {"help", "info"}
    /\ page_then_loop(move_page(0, videos, filter))
    /\ UNCHANGED << frame, filter, dispatched, event >>

\* read_command_output: the program runs and its output is copied until it
\* ends, or spawn answered Err and pause waits for a key
Spawned == {"running", "spawn_failed"}

\* play_id: as Spawned, or play_video finds none of app_config.players on
\* disk and returns without a word (lines 470-479)
Played == Spawned \cup {"no_player"}

after_spawn(outcome) ==
    /\ pc' = outcome
    /\ rawMode' = (outcome = "spawn_failed")
    /\ UNCHANGED << fatal, i >>

\* p, Enter: play_current; play_id clears the screen unless mpv_mode is set
play_current ==
    /\ Browsing
    /\ IF i < Len(toshow)
       THEN /\ dispatched' = << Dispatch("play", toshow[i + 1]) >>
            /\ \E outcome \in Played : after_spawn(outcome)
            /\ \E mpv_mode \in BOOLEAN : screen' = IF mpv_mode THEN screen ELSE <<>>
       ELSE /\ dispatched' = <<>>
            /\ loop_end(i, n)
            /\ UNCHANGED screen
    /\ event' = Key("p")
    /\ UNCHANGED << frame, videos, n, start, filter, toshow >>

\* d: download_current; download_id clears the screen
download_current ==
    /\ Browsing
    /\ IF i < Len(toshow)
       THEN /\ dispatched' = << Dispatch("download", toshow[i + 1]) >>
            /\ \E outcome \in Spawned : after_spawn(outcome)
            /\ screen' = <<>>
       ELSE /\ dispatched' = <<>>
            /\ loop_end(i, n)
            /\ UNCHANGED screen
    /\ event' = Key("d")
    /\ UNCHANGED << frame, videos, n, start, filter, toshow >>

\* o: open_current; webbrowser::open runs the browser command
open_current ==
    /\ Browsing
    /\ IF i < Len(toshow)
       THEN /\ dispatched' = << Dispatch("open", toshow[i + 1]) >>
            /\ after_spawn("running")
       ELSE /\ dispatched' = <<>>
            /\ loop_end(i, n)
    /\ event' = Key("o")
    /\ UNCHANGED << frame, videos, n, start, filter, toshow, screen >>

\* the external program ended, pause returned in read_command_output, or
\* play_video returned at once: the handler redraws (open_current does
\* not), line 788
external_returned ==
    /\ pc \in Played
    /\ loop_end(i, n)
    /\ screen' = IF event.key = "o" THEN screen ELSE print_videos(toshow)
    /\ dispatched' = <<>>
    /\ UNCHANGED << frame, videos, n, start, filter, toshow, event >>

\* /, f, : wait in input_with_prefix for a line
line_prompt(key) ==
    /\ Browsing
    /\ pc' = IF key = "/" THEN "search" ELSE IF key = "f" THEN "filter" ELSE "command"
    /\ rawMode' = FALSE
    /\ dispatched' = <<>>
    /\ event' = Key(key)
    /\ UNCHANGED << frame, fatal, viewVars, screen >>

key_search == line_prompt("/")
key_filter == line_prompt("f")
key_command == line_prompt(":")

\* find: the first row whose channel or title contains s, else 0
find(rows, s) ==
    LET hits == {k \in 1..Len(rows) : contains(rows[k].channel, s) \/ contains(rows[k].title, s)}
    IN  IF hits = {} THEN 0 ELSE (CHOOSE k \in hits : \A h \in hits : k <= h) - 1

\* search after the line is read
search ==
    /\ pc = "search"
    /\ \E s \in Texts :
           /\ event' = [event EXCEPT !.line = s]
           /\ loop_end(find(toshow, s), n)
    /\ screen' = print_videos(toshow)
    /\ UNCHANGED << frame, videos, n, start, filter, toshow, dispatched >>

\* filter after the line is read
filter_line ==
    /\ pc = "filter"
    /\ \E s \in Texts :
           /\ event' = [event EXCEPT !.line = s]
           /\ filter' = s
           /\ page_then_loop(move_page(0, videos, s))
    /\ UNCHANGED << frame, dispatched >>

\* command after the line is read: "o <id>" plays the id, anything else
\* does nothing; hide_cursor either way
command ==
    /\ pc = "command"
    /\ cursorHidden' = TRUE
    /\ \E is_open \in BOOLEAN :
           IF is_open
           THEN /\ dispatched' = << Dispatch("play_id", Video(<<>>, <<>>, 0)) >>
                /\ \E outcome \in Played : after_spawn(outcome)
                /\ screen' = <<>>
           ELSE /\ dispatched' = <<>>
                /\ loop_end(i, n)
                /\ screen' = print_videos(toshow)
    /\ UNCHANGED << envVars, termH, caller, loadVars, altScreen, observed,
                    videos, n, start, filter, toshow, event >>

\* any other key (line 782), or an event that is no key (lines 784-786)
other_key ==
    /\ Browsing
    /\ loop_end(i, n)
    /\ dispatched' = <<>>
    /\ event' = Key("_")
    /\ UNCHANGED << frame, videos, n, start, filter, toshow, screen >>

\* the user resizes the terminal while the program waits for input
resize ==
    /\ pc \in {"browsing", "help", "info", "running", "spawn_failed", "search", "filter",
              "command"}
    /\ \E h \in 1..MaxTermH :
           /\ h # termH
           /\ termH' = h
    /\ UNCHANGED << envVars, pc, fatal, caller, loadVars, viewVars, termVars, rawMode,
                    dispatched, observed,
                    event, screen >>

\* --------------------------------------------------------- specifications
Load ==
    \/ load_begin
    \/ load_no_subscriptions
    \/ \E s \in Sources : fetch(s)
    \/ write_open
    \/ write_chunk
    \/ write_fail
    \/ read_fail

Keys ==
    \/ key_quit
    \/ key_down
    \/ key_up
    \/ key_top
    \/ key_middle
    \/ key_bottom
    \/ soft_reload
    \/ previous_page
    \/ next_page
    \/ hard_reload
    \/ help
    \/ info
    \/ wait_key_press_and_soft_reload
    \/ play_current
    \/ download_current
    \/ open_current
    \/ external_returned
    \/ key_search
    \/ key_filter
    \/ key_command
    \/ search
    \/ filter_line
    \/ command
    \/ other_key

\* the interactive session
Next ==
    \/ main
    \/ Load
    \/ read_unparseable
    \/ load_return_run
    \/ load_return_hard_reload
    \/ Keys
    \/ resize

Spec == Init /\ [][Next]_vars

\* the non-interactive run, with a second instance reading the cache file
NextBatch ==
    \/ main
    \/ Load
    \/ load_return_download
    \/ reader_read

SpecBatch == InitBatch /\ [][NextBatch]_vars

\* to_show_videos applied to every catalog, filter, start and window size
DeriveVideos ==
    {Video(<<"a", "b">>, <<"b">>, d) : d \in Days}
        \cup {Video(<<"b">>, <<"b", "a">>, d) : d \in Days}

DeriveTexts == { <<>>, <<"a", "b">>, <<"b", "a">> }

RECURSIVE SeqsUpTo(_, _)
SeqsUpTo(S, len) ==
    IF len = 0 THEN {<<>>}
    ELSE LET shorter == SeqsUpTo(S, len - 1)
         IN  shorter \cup {Append(s, x) : s \in {q \in shorter : Len(q) = len - 1}, x \in S}

InitDerive ==
    /\ args = [numeric |-> FALSE, take |-> 0]
    /\ pc = "derive"
    /\ fatal = ""
    /\ caller = "none"
    /\ net = [s \in Sources |-> Unreachable]
    /\ termH = 1
    /\ cacheFile = NoFile
    /\ cacheAtCall = NotCalled
    /\ results = [s \in Sources |-> NotFetched]
    /\ videos \in SeqsUpTo(DeriveVideos, MaxLen)
    /\ n \in 0..MaxWin
    /\ start \in 0..MaxLen
    /\ filter \in DeriveTexts
    /\ i = 0
    /\ toshow = <<>>
    /\ altScreen = FALSE
    /\ cursorHidden = FALSE
    /\ rawMode = FALSE
    /\ dispatched = <<>>
    /\ observed = NotRead
    /\ event = NoKey
    /\ screen = <<>>
    /\ urls = <<>>

\* one call to_show_videos(&mut videos, start, start + n, &filter)
derive ==
    /\ pc = "derive"
    /\ LET r == to_show_videos(videos, start, start + n, filter)
       IN  /\ videos' = r.sorted
           /\ IF r.ok
              THEN /\ toshow' = r.result
                   /\ pc' = "derived"
                   /\ UNCHANGED << fatal, rawMode >>
              ELSE /\ Panic(SlicePanic)
                   /\ UNCHANGED toshow
    /\ UNCHANGED << frame, n, start, filter, i, dispatched, event, screen >>

SpecDerive == InitDerive /\ [][derive]_vars

\* ---------------------------------------------------------------- claims
\* what the sources that answered hold, in the order of the urls
ReachableEntries(s) == IF net[s].kind = "ok" THEN net[s].feed ELSE <<>>
ReachableCatalog == Concat([s \in Sources |-> ReachableEntries(s)])

\* load(true) has returned and its caller has gone on
RefreshReturned ==
    /\ reload
    /\ pc \notin {"main", "load", "fetch", "write", "read", "panicked"}

\* C1: fetch isolation. When the answer of a source is not XML, the
\* aggregation still completes: no failure reaches the caller, and what is
\* aggregated is the entries of the other sources in url order.
C1_FetchIsolation ==
    /\ fatal # ParsePanic
    /\ pc = "write" => SameBag(get_videos(results, urls), ReachableCatalog)

\* C2: force-refresh with unreachable sources. Once load(true) has returned,
\* the catalog holds, as a multiset, exactly the entries of the sources that
\* answered (duplicates kept), and the cache file is the text of exactly
\* those entries; an unreachable source alone never makes the pass fail.
C2_ForceRefresh ==
    /\ RefreshReturned =>
           /\ SameBag(videos, ReachableCatalog)
           /\ cacheFile.exists
           /\ parses(cacheFile.data)
           /\ SameBag(from_str(cacheFile.data), ReachableCatalog)
    /\ fatal = ParsePanic => \E s \in Sources : net[s] = Malformed

\* C2 witness: a refresh returned with one source unreachable, another
\* answering entries, over a previous cache with other entries
C2_Witness ==
    /\ RefreshReturned
    /\ \E s \in Sources : net[s] = Unreachable
    /\ videos # <<>>
    /\ cacheAtCall.file.exists
    /\ parses(cacheAtCall.file.data)
    /\ \E v \in Range(from_str(cacheAtCall.file.data)) : v \notin Range(videos)

\* load(false) was called by run while a cache file existed
CacheHitCall ==
    /\ caller = "run"
    /\ cacheAtCall.called
    /\ cacheAtCall.file.exists

\* C3: cache hit. After load(false) is called while a cache file exists, no
\* source is fetched, the cache file stays as it was, and the catalog the
\* session starts with is the cached entries (sorted in place by first_page).
C3_CacheHit ==
    CacheHitCall =>
        /\ \A s \in Sources : ~results[s].done
        /\ pc \notin {"fetch", "write"}
        /\ fatal \notin {ParsePanic, WritePanic}
        /\ cacheFile = cacheAtCall.file
        /\ pc \notin {"read", "panicked"} =>
               /\ SameBag(videos, from_str(cacheFile.data))
               /\ videos = sort_by(from_str(cacheFile.data))

\* C3 witness: the session browses a catalog read from an existing cache
C3_Witness ==
    /\ CacheHitCall
    /\ Browsing
    /\ videos # <<>>
    /\ \E s \in Sources : net[s].kind = "ok" /\ net[s].feed # <<>>

\* the cache file as it was before the refresh
PreviousSnapshot == IF cacheAtCall.called THEN cacheAtCall.file ELSE cacheFile

\* the complete file the running refresh writes, or has written
NewSnapshot ==
    IF pc = "write" THEN File(to_string(get_videos(results, urls))) ELSE cacheFile

\* C4: atomic cache replacement. Whatever a second instance reads from the
\* cache file while a force-refresh runs is the complete previous file or the
\* complete new one.
C4_AtomicReplace ==
    observed.read =>
        \/ observed.file = PreviousSnapshot
        \/ observed.file = NewSnapshot

\* C5: a cache error is a cache miss. When load(false) finds a cache file
\* that cannot be read or parsed, it aggregates, rewrites the cache and the
\* session starts; it does not fail.
C5_CacheErrorIsMiss ==
    (CacheHitCall /\ ~parses(cacheAtCall.file.data)) =>
        /\ fatal \notin {JsonPanic, NonePanic}
        /\ Browsing =>
               /\ SameBag(videos, ReachableCatalog)
               /\ cacheFile.exists
               /\ parses(cacheFile.data)
               /\ SameBag(from_str(cacheFile.data), ReachableCatalog)

\* C6: terminal release on every exit path. Whenever the process has ended,
\* the alternate screen is left, the cursor is shown and raw mode is off.
C6_TerminalReleased ==
    pc \in {"done", "panicked"} =>
        /\ ~altScreen
        /\ ~cursorHidden
        /\ ~rawMode

\* the stable, newest-first order of a catalog, stated on positions
RefOrder(cat) ==
    CHOOSE p \in [1..Len(cat) -> 1..Len(cat)] :
        /\ \A a, b \in 1..Len(cat) : a # b => p[a] # p[b]
        /\ \A a, b \in 1..Len(cat) :
               a < b =>
                   \/ cat[p[a]].published > cat[p[b]].published
                   \/ /\ cat[p[a]].published = cat[p[b]].published
                      /\ p[a] < p[b]

\* the entries of the newest-first catalog whose title or source name
\* contains f
RefFiltered(cat, f) ==
    LET p == RefOrder(cat)
        keep == {a \in 1..Len(cat) :
                    contains(cat[p[a]].title, f) \/ contains(cat[p[a]].channel, f)}
        \* the a-th kept position
        nth[a \in 1..Cardinality(keep)] ==
            CHOOSE k \in keep : Cardinality({h \in keep : h <= k}) = a
    IN  [a \in 1..Cardinality(keep) |-> cat[p[nth[a]]]]

PublishedOf(s) == [k \in 1..Len(s) |-> s[k].published]

\* C7: derive against a reference. For start <= len(filtered), the call
\* returns the reverse of the slice [start, min(start + window, len(filtered)))
\* of the newest-first catalog filtered by title or source name, never more
\* than the window; on the dates 03, 01, 02 with start 0 and window 2 it
\* returns the entry of 02 and then the entry of 03.
C7_DeriveReference ==
    [][ (pc = "derive" /\ start <= Len(RefFiltered(videos, filter))) =>
            LET ref == RefFiltered(videos, filter)
            IN  /\ pc' = "derived"
                /\ toshow' = Reverse(SubSeq(ref, start + 1, Min(start + n, Len(ref))))
                /\ Len(toshow') <= n
                /\ (PublishedOf(videos) = <<3, 1, 2>> /\ filter = <<>> /\ start = 0 /\ n = 2)
                       => PublishedOf(toshow') = <<2, 3>>
      ]_vars

\* C7 witness: the window of two over three days, and a window cut by a
\* filter that keeps only some entries
C7_Witness ==
    /\ pc = "derived"
    /\ start = 0
    /\ n = 2
    /\ Len(videos) = 3
    /\ PublishedOf(toshow) = <<2, 3>>
    /\ filter = <<"a", "b">>
    /\ \E k \in 1..Len(videos) : ~matches(videos[k], filter)

\* C8: the derive edge. No derive call of the session fails, and with
\* viewport_start at or past the end of the filtered sequence the window is
\* empty.
C8_DeriveEdge ==
    /\ fatal # SlicePanic
    /\ (Browsing /\ start >= Len(filtered_videos(videos, filter))) => toshow = <<>>

\* the videos handed to the downloader
Downloaded == [k \in 1..Len(dispatched) |-> dispatched[k].video]

\* C9: non-interactive mode. The run ends having dispatched downloads for
\* exactly the N entries of the refreshed catalog with the greatest
\* published values (all of them when there are fewer than N).
C9_DownloadsMostRecent ==
    (pc = "done" /\ args.numeric) =>
        /\ Len(Downloaded) = Min(args.take, Len(videos))
        /\ \A v \in Range(Downloaded) : Count(v, Downloaded) <= Count(v, videos)
        /\ \A v \in Range(Downloaded) : \A w \in Range(videos) :
               Count(w, Downloaded) < Count(w, videos) => v.published >= w.published

\* C10: selection down wraps over the visible window. With a non-empty
\* window, j, l or Down sets selection_index to
\* (selection_index + 1) mod len(visible_window).
C10_DownWraps ==
    [][ (key_down /\ toshow # <<>>) => i' = (i + 1) % Len(toshow) ]_vars

\* the position of entry k of cat in the stable newest-first order
Rank(cat, k) ==
    1 + Cardinality({h \in 1..Len(cat) :
                        \/ cat[h].published > cat[k].published
                        \/ cat[h].published = cat[k].published /\ h < k})

\* the newest-first catalog, then its entries whose title or source name
\* contains f
Newest(cat) == [r \in 1..Len(cat) |-> cat[CHOOSE k \in 1..Len(cat) : Rank(cat, k) = r]]
Filtered(cat, f) ==
    SelectSeq(Newest(cat), LAMBDA v : contains(v.title, f) \/ contains(v.channel, f))

\* C11: selection to the last row. With a non-empty window, k or Up at
\* selection_index 0, and G or L from any row, set selection_index to
\* len(visible_window) - 1.
C11_LastRow ==
    [][ ((key_bottom \/ (key_up /\ i = 0)) /\ toshow # <<>>) => i' = Len(toshow) - 1 ]_vars

\* C12: page forward. P adds viewport_height to viewport_start when
\* viewport_start + 2 * viewport_height <= len(filtered), and leaves it
\* unchanged otherwise, the filtered sequence being that of the current
\* filter_text.
C12_PageForward ==
    [][ previous_page =>
            start' = IF start + 2 * get_lines <= Len(Filtered(videos, filter))
                     THEN start + get_lines
                     ELSE start ]_vars

Max(a, b) == IF a > b THEN a ELSE b

\* C13: page backward clamps at 0. N sets viewport_start to
\* max(viewport_start - viewport_height, 0) for the terminal height at that
\* key press, which becomes viewport_height; it is never negative, whatever
\* the height was at the previous page action.
C13_PageBackClamps ==
    [][ (Browsing /\ event'.key = "N" /\ next_page) =>
            /\ n' = get_lines
            /\ start' = Max(start - get_lines, 0)
            /\ start' >= 0
            /\ fatal' \notin {SlicePanic, SubPanic} ]_vars

\* C13 witness: N has moved the viewport back to an offset above 0, and the
\* terminal has since grown past that offset, to a height the offset is no
\* multiple of: the next N is the clamped one
C13_Witness ==
    /\ Browsing
    /\ event.key = "N"
    /\ start > 0
    /\ get_lines # n
    /\ get_lines > start
    /\ start % get_lines # 0

\* the window derive gives for a catalog, a filter, an offset and a height
Derive(cat, f, st, height) ==
    LET fl == Filtered(cat, f)
    IN  Reverse(SubSeq(fl, st + 1, Min(st + height, Len(fl))))

\* C14: the filter resets pagination. When the f interaction has read its
\* line, filter_text is the typed text, viewport_start and selection_index
\* are 0 and the visible window is derived with the new filter.
C14_FilterResets ==
    [][ filter_line =>
            /\ filter' = event'.line
            /\ start' = 0
            /\ i' = 0
            /\ toshow' = Derive(videos, event'.line, 0, get_lines) ]_vars

\* C14 witness: the session browses again after f read a text that keeps
\* some entries of the catalog and drops others
C14_Witness ==
    /\ Browsing
    /\ event.key = "f"
    /\ event.line # <<>>
    /\ filter = event.line
    /\ toshow # <<>>
    /\ Len(Filtered(videos, filter)) < Len(videos)

\* C15: an unsupported key is a no-op. A key outside the key table leaves
\* the catalog, the cache file, filter_text, viewport_start, viewport_height,
\* selection_index and the visible window as they were, fetches nothing,
\* starts no external process, and the session stays in Browsing.
C15_UnsupportedKeyNoOp ==
    [][ other_key =>
            /\ UNCHANGED << videos, cacheFile, filter, start, n, i, toshow >>
            /\ UNCHANGED results
            /\ dispatched' = <<>>
            /\ pc' = "browsing" ]_vars

C17_SelectedUnderSelector ==
    [][ (Browsing /\ toshow # <<>> /\ i < Len(screen)) =>
            /\ play_current => dispatched' = << Dispatch("play", screen[i + 1]) >>
            /\ download_current => dispatched' = << Dispatch("download", screen[i + 1]) >>
            /\ open_current => dispatched' = << Dispatch("open", screen[i + 1]) >>
            /\ info => screen' = << screen[i + 1] >> ]_vars

\* C18: the empty-window guard. For every terminal height and every window,
\* the selection arithmetic of j, k, G, M and the normalisation of
\* selection_index after each key never divide by zero and never underflow.
C18_EmptyWindowGuard == fatal \notin {DivPanic, SubPanic}

\* C19: view consistency. Whenever the session waits for a key in Browsing,
\* the visible window is derive(catalog, filter_text, viewport_start,
\* viewport_height) over the whole catalog.
C19_ViewConsistent ==
    Browsing => toshow = Derive(videos, filter, start, n)

\* C19 witness: a page other than the first of a filtered catalog is shown,
\* after a force-refresh
C19_Witness ==
    /\ Browsing
    /\ caller = "R"
    /\ start > 0
    /\ filter # <<>>
    /\ toshow # <<>>

\* C20: return from the sub-interactions. When help, info, search, filter
\* or command completes, the session is in Browsing, the visible window is
\* derived from the catalog with filter_text, viewport_start and the
\* terminal height of that moment, and the screen shows that window.
C20_SubInteractionReturn ==
    [][ ( \/ wait_key_press_and_soft_reload
          \/ search
          \/ filter_line
          \/ (command /\ pc' \notin Played)
          \/ (external_returned /\ event.key = ":") ) =>
            /\ pc' = "browsing"
            /\ toshow' = Derive(videos', filter', start', get_lines)
            /\ screen' = print_videos(toshow') ]_vars

\* the session browses a catalog that load fetched in this run
FetchedView ==
    /\ Browsing
    /\ cacheAtCall.called
    /\ needs_fetch(reload, cacheAtCall.file)

\* what the answering sources hold, the urls enumerated in the given order
CatalogIn(order) == Concat([k \in 1..Len(order) |-> ReachableEntries(order[k])])

LaunchFailed == {"spawn_failed", "no_player"}

\* C22: an external process failure is reported and not fatal. When the
\* program that p, Enter, d or the command o <id> needs is missing or does
\* not start, the failure is reported and the session waits for a key; it
\* then returns to Browsing with the catalog, filter_text and viewport_start
\* as they were, and never ends because of it.
C22_ExternalFailure ==
    [][ /\ (pc \notin LaunchFailed /\ pc' \in LaunchFailed) =>
               (pc' = "spawn_failed" /\ rawMode')
        /\ pc \in LaunchFailed =>
               /\ pc' \in {pc, "browsing"}
               /\ UNCHANGED << videos, filter, start >> ]_vars

\* C23: the effect of a soft reload. r, $, Left and the return from help or
\* info set viewport_start and selection_index to 0 from every page, fetch
\* nothing, and leave the entries of the catalog, filter_text and the cache
\* file as they were.
C23_SoftReload ==
    [][ ( \/ (Browsing /\ event'.key = "r" /\ soft_reload)
          \/ (pc \in {"help", "info"} /\ wait_key_press_and_soft_reload) ) =>
            /\ start' = 0
            /\ i' = 0
            /\ pc' \notin {"load", "fetch", "write", "read"}
            /\ UNCHANGED << results, filter, cacheFile >>
            /\ SameBag(videos', videos) ]_vars

\* C23 witness: the session browses the first page again after the
\* information of an entry was shown, with a filter set and a catalog of
\* more than one page
C23_Witness ==
    /\ Browsing
    /\ event.key = "i"
    /\ start = 0
    /\ i = 0
    /\ filter # <<>>
    /\ n >= 1
    /\ Len(videos) > 2 * n

\* C24: every entry is reached by paging. With a fixed viewport_height >= 1
\* and an empty filter, every entry shows up after finitely many P from
\* viewport_start 0: as long as entries lie past the window, P moves the
\* viewport on to the next page (a P that stays leaves them out for good).
C24_PagingReachesAll ==
    [][ ( /\ Browsing
          /\ event'.key = "P"
          /\ previous_page
          /\ filter = <<>>
          /\ n = get_lines
          /\ get_lines >= 1
          /\ start + get_lines < Len(videos) ) =>
            start' = start + get_lines ]_vars
====
